---------------------------- MODULE Spec2Model ----------------------------
(***************************************************************************)
(* Model of allris_bot.py: a polling bot that fetches council papers,      *)
(* filters them by a watermark kept in last_posted_id.txt, sorts the       *)
(* survivors, posts each one and saves the watermark after every post.     *)
(*                                                                         *)
(* One invocation of check_and_post_new_papers is a process that moves     *)
(* through the steps                                                       *)
(*   idle -> (fetch, load, filter, sort) -> toot -> (toot) -> save          *)
(*        -> (save) -> sleep -> (sleep) -> toot ... -> done -> idle        *)
(* The watermark file is the only state the invocations share.             *)
(***************************************************************************)
EXTENDS Integers, Sequences, FiniteSets, TLC

(* ------------------------------ bounds --------------------------------- *)
\* largest paper identifier the feed hands out
MaxId == 2
\* longest list one fetch returns
MaxPapers == 2
\* number of invocations of the bot in one behaviour
MaxRuns == 2

\* the invocations that may exist at the same time
Procs == {"A", "B"}

(* --------------------------- text <-> integer -------------------------- *)
Digits == <<"0", "1", "2", "3", "4", "5", "6", "7", "8", "9">>

DigitVal(c) == (CHOOSE k \in 1..10 : Digits[k] = c) - 1

IsDigit(c) == \E k \in 1..10 : Digits[k] = c

RECURSIVE StrNat(_)
\* str(n) of a natural number: its decimal digits
StrNat(n) == IF n < 10 THEN <<Digits[n + 1]>>
             ELSE StrNat(n \div 10) \o <<Digits[(n % 10) + 1]>>

\* str(n) of an integer
Str(n) == IF n < 0 THEN <<"-">> \o StrNat(0 - n) ELSE StrNat(n)

RECURSIVE DigitsVal(_, _)
\* value of a digit string, read left to right with accumulator acc
DigitsVal(s, acc) == IF s = <<>> THEN acc
                     ELSE DigitsVal(Tail(s), acc * 10 + DigitVal(Head(s)))

\* int(text): ok is FALSE where Python raises ValueError
ParseInt(s) ==
    LET body == IF s # <<>> /\ Head(s) \in {"-", "+"} THEN Tail(s) ELSE s
        neg  == s # <<>> /\ Head(s) = "-"
    IN  IF body = <<>> \/ \E k \in 1..Len(body) : ~IsDigit(body[k])
        THEN [ok |-> FALSE, val |-> 0]
        ELSE [ok |-> TRUE,
              val |-> IF neg THEN 0 - DigitsVal(body, 0) ELSE DigitsVal(body, 0)]

(* ------------------------------- papers -------------------------------- *)
\* the "id" field of a paper: a URL whose query may carry an id parameter
Refs == {[hasId |-> FALSE, value |-> <<>>], [hasId |-> TRUE, value |-> <<"x">>]}
        \cup {[hasId |-> TRUE, value |-> Str(n)] : n \in 1..MaxId}

\* the "mainFile" field: missing, present with a null value, or an object
MainFiles == {"absent", "null", "obj"}

Paper == [id : Refs, mainFile : MainFiles]

\* all sequences over S of length at most n
SeqUpTo(S, n) == UNION {[1..k -> S] : k \in 0..n}

\* mutant of extract_id: a wrong default, 1 instead of 0
extract_idDefaultsToOne(ref) ==
    IF ~ref.hasId THEN 1
    ELSE LET r == ParseInt(ref.value) IN IF r.ok THEN r.val ELSE 1

\* extract_id: the id parameter as an integer, 0 when missing or malformed
extract_id(ref) ==
    IF ~ref.hasId THEN 0
    ELSE LET r == ParseInt(ref.value) IN IF r.ok THEN r.val ELSE 0

\* create_status raises when mainFile is present but null (None.get)
CreateStatusRaises(paper) == paper.mainFile = "null"

\* lines 113-154: the fields of a paper record that create_status reads.  A
\* text field is absent, null, an empty string or a string ("text"); created
\* may also be a string that is not an ISO timestamp ("unparsable"), or a JSON
\* value that is not a string ("number"); mainFile is absent, null, or an
\* object whose accessUrl is absent ("noUrl"), null ("nullUrl") or a string
TextFields == {"absent", "null", "empty", "text"}
CreatedFields == {"absent", "null", "empty", "iso", "unparsable", "number"}
MainFileFields == {"absent", "null", "noUrl", "nullUrl", "url"}
Record == [paperType: TextFields, created: CreatedFields, web: TextFields,
           mainFile: MainFileFields]

\* a record with the mandatory fields only
BareRecord == [paperType |-> "absent", created |-> "absent", web |-> "absent",
               mainFile |-> "absent"]

\* Python truthiness of a field read with paper.get(name)
Truthy(field) == field \notin {"absent", "null", "empty"}

\* the result of formatting: nothing yet, an exception, or the lines of the status
NotFormatted == [done |-> FALSE, raises |-> FALSE, lines |-> <<>>]
Raised == [done |-> TRUE, raises |-> TRUE, lines |-> <<>>]
Returned(lines) == [done |-> TRUE, raises |-> FALSE, lines |-> lines]

\* lines 129-137: fromisoformat raises ValueError for a string it cannot parse,
\* which is caught and drops the line, and TypeError for a value that is not a
\* string, which is not caught
CreatedLine(created) ==
    IF Truthy(created) /\ created = "iso" THEN <<"date">> ELSE <<>>

\* lines 113-154
create_status(paper) ==
    LET title == <<"title">>
        type  == IF Truthy(paper.paperType) THEN <<"type">> ELSE <<>>
        date  == CreatedLine(paper.created)
        web   == IF Truthy(paper.web) THEN <<"web">> ELSE <<>>
        pdf   == IF paper.mainFile = "url" THEN <<"pdf">> ELSE <<>>
    IN  IF paper.created = "number" THEN Raised          \* line 133
        ELSE IF paper.mainFile = "null" THEN Raised      \* line 144
        ELSE Returned(title \o type \o date \o web \o pdf \o <<"tags">>)

(* --------------------------- watermark file ---------------------------- *)
NoFile == [exists |-> FALSE, content |-> <<>>]

FileWith(n) == [exists |-> TRUE, content |-> Str(n)]

\* open(LAST_ID_FILE, "w") succeeded and truncated, the write did not land
Truncated == [exists |-> TRUE, content |-> <<>>]

\* mutant of LoadValue: text that int() rejects is taken for watermark 1
LoadValueOfGarbageIsOne(f) ==
    IF ~f.exists THEN 0
    ELSE LET r == ParseInt(f.content) IN IF r.ok THEN r.val ELSE 1

\* load_last_id when the read itself works
LoadValue(f) ==
    IF ~f.exists THEN 0
    ELSE LET r == ParseInt(f.content) IN IF r.ok THEN r.val ELSE 0


(* ---------------------------- filter and sort -------------------------- *)
\* mutant of Keep: an off-by-one filter that lets the watermark itself through
KeepFromWatermark(paper_id, last) == paper_id >= last

\* line 177 negated: the paper survives the watermark filter
Keep(paper_id, last) == paper_id > last

RECURSIVE FilterNew(_, _)
\* lines 175-180: the (paper_id, paper) pairs above the watermark, in feed order
FilterNew(ps, last) ==
    IF ps = <<>> THEN <<>>
    ELSE LET paper_id == extract_id(Head(ps).id)
             rest     == FilterNew(Tail(ps), last)
         IN  IF Keep(paper_id, last)
             THEN <<[paper_id |-> paper_id, paper |-> Head(ps)]>> \o rest
             ELSE rest

\* new_papers.sort() compares (int, dict) tuples: two pairs with the same
\* paper_id and unequal dicts reach dict < dict, which raises TypeError
SortRaises(cands) ==
    \E i, j \in 1..Len(cands) :
        /\ cands[i].paper_id = cands[j].paper_id
        /\ cands[i].paper # cands[j].paper

\* mutant of InsertSorted: appends, so the feed order is kept
InsertUnsorted(x, s) == s \o <<x>>

RECURSIVE InsertSorted(_, _)
\* x placed behind every element whose paper_id is not larger (stable)
InsertSorted(x, s) ==
    IF s = <<>> THEN <<x>>
    ELSE IF x.paper_id < Head(s).paper_id THEN <<x>> \o s
    ELSE <<Head(s)>> \o InsertSorted(x, Tail(s))

RECURSIVE SortById(_)
\* line 183 when no comparison raises: ascending by paper_id
SortById(cands) ==
    IF cands = <<>> THEN <<>>
    ELSE InsertSorted(cands[Len(cands)], SortById(SubSeq(cands, 1, Len(cands) - 1)))

(* -------------------------------- state -------------------------------- *)
VARIABLES
    file,            \* last_posted_id.txt
    pc,              \* where each invocation stands
    fetched,         \* history: the ids extracted from papers, the fetched list
    last_posted_id,  \* last_posted_id of check_and_post_new_papers
    new_papers,      \* new_papers, after the sort
    idx,             \* position of the publish loop in new_papers
    published,       \* history: the ids tooted with success in this run, in time order
    publishedBefore, \* history: the ids tooted with success in the runs that ended
    attempts,        \* history: paper_ids handed to mastodon.toot in this run
    run,             \* history: number of the run an invocation is in
    runs,            \* history: invocations started so far
    startFile,       \* history: the watermark file when the run started
    fetchStatus,     \* history: how get_recent_papers ended in this run
    failedIds,       \* history: ids whose latest toot raised
    retry,           \* history: failedIds when the run started
    outcome,         \* history: how the latest toot of the run ended
    flags,           \* history: overlapped, readFault, writeFault, decreased, killed
    pauses,          \* history: the time.sleep calls completed in this run
    record,          \* formatter: the paper record handed to create_status
    status_text,     \* formatter: what create_status gave for it
    scheduling       \* environment: "single" instance, or "overlap" allowed

locals == <<fetched, last_posted_id, new_papers, idx>>
hist   == <<published, publishedBefore, attempts, run, runs, startFile,
            fetchStatus, failedIds, retry, outcome, flags, scheduling>>
vars   == <<file, pc, fetched, last_posted_id, new_papers, idx, published,
            publishedBefore, attempts, run, runs, startFile, fetchStatus, failedIds, retry,
            outcome, flags, pauses, record, status_text, scheduling>>

Active(q) == pc[q] \in {"toot", "save", "sleep"}

InitRun ==
    /\ file = NoFile
    /\ status_text = NotFormatted
    /\ pc = [p \in Procs |-> "idle"]
    /\ fetched = [p \in Procs |-> {}]
    /\ last_posted_id = [p \in Procs |-> 0]
    /\ new_papers = [p \in Procs |-> <<>>]
    /\ idx = [p \in Procs |-> 0]
    /\ published = [p \in Procs |-> <<>>]
    /\ publishedBefore = {}
    /\ attempts = [p \in Procs |-> <<>>]
    /\ run = [p \in Procs |-> 0]
    /\ runs = 0
    /\ startFile = [p \in Procs |-> NoFile]
    /\ fetchStatus = [p \in Procs |-> "none"]
    /\ failedIds = {}
    /\ retry = [p \in Procs |-> {}]
    /\ outcome = [p \in Procs |-> "none"]
    /\ pauses = [p \in Procs |-> 0]
    /\ flags = [overlapped |-> FALSE, readFault |-> FALSE, writeFault |-> FALSE,
                decreased |-> FALSE, killed |-> FALSE]


\* single-instance execution: one invocation at a time, here always slot "A"
Init == InitRun /\ scheduling = "single" /\ record = BareRecord

\* two invocations may overlap on the watermark file
InitOverlap == InitRun /\ scheduling = "overlap" /\ record = BareRecord

\* create_status on its own: any paper record, not yet formatted
InitFormat == InitRun /\ scheduling = "single" /\ record \in Record

(* ------------------------------- actions ------------------------------- *)
\* an invocation is started (line 229), by the external scheduler: always in
\* slot "A" when one instance runs at a time, first in "A" and then in "B"
\* when a second one may start before the first has ended
MayStart(p) ==
    /\ pc[p] = "idle"
    /\ runs < MaxRuns
    /\ scheduling = "single" => p = "A"
    /\ scheduling = "overlap" => (p = "A" <=> runs = 0)

\* the extracted identifiers of a fetched list
FetchedIds(ps) == {extract_id(ps[k].id) : k \in 1..Len(ps)}

\* lines 164-184: the run from its start to the head of the publish loop, for
\* the list ps that get_recent_papers returned.  The fetch touches nothing the
\* invocations share, so it is taken together with the read of the watermark.
Begin(p, ps, status, readFails) ==
    LET last  == IF readFails THEN 0 ELSE LoadValue(file)
        cands == FilterNew(ps, last)
    IN  /\ fetched' = [fetched EXCEPT ![p] = FetchedIds(ps)]
        /\ last_posted_id' = [last_posted_id EXCEPT ![p] = last]
        /\ IF SortRaises(cands)
           THEN /\ pc' = [pc EXCEPT ![p] = "raised"]
                /\ new_papers' = [new_papers EXCEPT ![p] = cands]
                /\ idx' = idx
           ELSE /\ new_papers' = [new_papers EXCEPT ![p] = SortById(cands)]
                /\ idx' = [idx EXCEPT ![p] = 1]
                /\ pc' = [pc EXCEPT ![p] = IF cands = <<>> THEN "done" ELSE "toot"]
        /\ runs' = runs + 1
        /\ run' = [run EXCEPT ![p] = runs + 1]
        /\ startFile' = [startFile EXCEPT ![p] = file]
        /\ fetchStatus' = [fetchStatus EXCEPT ![p] = status]
        /\ retry' = [retry EXCEPT ![p] = failedIds]
        /\ flags' = [flags EXCEPT
                       !.overlapped = @ \/ \E q \in Procs \ {p} : Active(q),
                       !.readFault = @ \/ readFails]
        /\ UNCHANGED <<file, published, publishedBefore, attempts, failedIds, outcome,
                       scheduling,
                   record, status_text>>
        /\ UNCHANGED pauses

\* lines 166, 102-107, 171-184: the request works and the body carries a list
\* of papers; load_last_id reads the file, or fails to and returns 0
FetchOk(p) ==
    /\ MayStart(p)
    /\ \E ps \in SeqUpTo(Paper, MaxPapers), readFails \in {FALSE, file.exists} :
          Begin(p, ps, "ok", readFails)

\* lines 105-107, 175-176: the body is an object whose "data" holds items that
\* are not objects; get_recent_papers returns them and paper.get raises
\* AttributeError in the filter loop, outside every try
FetchNotPapers(p) ==
    /\ MayStart(p)
    /\ pc' = [pc EXCEPT ![p] = "raised"]
    /\ runs' = runs + 1
    /\ run' = [run EXCEPT ![p] = runs + 1]
    /\ startFile' = [startFile EXCEPT ![p] = file]
    /\ fetchStatus' = [fetchStatus EXCEPT ![p] = "notpapers"]
    /\ retry' = [retry EXCEPT ![p] = failedIds]
    /\ \E readFails \in {FALSE, file.exists} :
          /\ last_posted_id' = [last_posted_id EXCEPT ![p] =
                                   IF readFails THEN 0 ELSE LoadValue(file)]
          /\ flags' = [flags EXCEPT
                         !.overlapped = @ \/ \E q \in Procs \ {p} : Active(q),
                         !.readFault = @ \/ readFails]
    /\ UNCHANGED <<file, fetched, new_papers, idx, published, publishedBefore, attempts,
                   failedIds, outcome, scheduling,
                   record, status_text>>
    /\ UNCHANGED pauses

\* mutant of FetchRequestException: the handler hands back a list, not []
FetchRequestExceptionKeepsList(p) ==
    /\ MayStart(p)
    /\ \E ps \in SeqUpTo(Paper, MaxPapers), readFails \in {FALSE, file.exists} :
          Begin(p, ps, "reqexc", readFails)

\* lines 108-110: a requests.RequestException (network error, HTTP error
\* status) is caught inside get_recent_papers, which returns []
FetchRequestException(p) ==
    /\ MayStart(p)
    /\ \E readFails \in {FALSE, file.exists} : Begin(p, <<>>, "reqexc", readFails)

\* lines 167-169: any other exception (a body that is not a JSON object with
\* a list under "data") leaves get_recent_papers and ends the run
FetchRaises(p) ==
    /\ MayStart(p)
    /\ pc' = [pc EXCEPT ![p] = "done"]
    /\ runs' = runs + 1
    /\ run' = [run EXCEPT ![p] = runs + 1]
    /\ startFile' = [startFile EXCEPT ![p] = file]
    /\ fetchStatus' = [fetchStatus EXCEPT ![p] = "exc"]
    /\ retry' = [retry EXCEPT ![p] = failedIds]
    /\ flags' = [flags EXCEPT !.overlapped = @ \/ \E q \in Procs \ {p} : Active(q)]
    /\ UNCHANGED <<file, fetched, last_posted_id, new_papers, idx, published, publishedBefore,
                   attempts, failedIds, outcome, scheduling,
                   record, status_text>>
    /\ UNCHANGED pauses

\* the pair the publish loop is at
Current(p) == new_papers[p][idx[p]]

\* line 188: create_status raises outside the try, the run ends with it
FormatRaises(p) ==
    /\ pc[p] = "toot"
    /\ CreateStatusRaises(Current(p).paper)
    /\ pc' = [pc EXCEPT ![p] = "raised"]
    /\ UNCHANGED <<file, locals, hist, scheduling,
                   record, status_text>>
    /\ UNCHANGED pauses

\* lines 191-192: mastodon.toot returns
TootOk(p) ==
    /\ pc[p] = "toot"
    /\ ~CreateStatusRaises(Current(p).paper)
    /\ pc' = [pc EXCEPT ![p] = "save"]
    /\ attempts' = [attempts EXCEPT ![p] = Append(@, Current(p).paper_id)]
    /\ published' = [published EXCEPT ![p] = Append(@, Current(p).paper_id)]
    /\ UNCHANGED publishedBefore
    /\ failedIds' = failedIds \ {Current(p).paper_id}
    /\ outcome' = [outcome EXCEPT ![p] = "ok"]
    /\ UNCHANGED <<file, locals, run, runs, startFile, fetchStatus, retry,
                   flags, scheduling,
                   record, status_text>>
    /\ UNCHANGED pauses

\* what a toot that raised does, up to the watermark file and the next step
TootRaisesTo(p, f, next) ==
    /\ pc[p] = "toot"
    /\ ~CreateStatusRaises(Current(p).paper)
    /\ pc' = [pc EXCEPT ![p] = next]
    /\ file' = f
    /\ attempts' = [attempts EXCEPT ![p] = Append(@, Current(p).paper_id)]
    /\ failedIds' = failedIds \cup {Current(p).paper_id}
    /\ outcome' = [outcome EXCEPT ![p] = "failed"]
    /\ UNCHANGED <<locals, published, publishedBefore, run, runs, startFile, fetchStatus,
                   retry, flags, scheduling,
                   record, status_text>>
    /\ UNCHANGED pauses

\* mutant of TootRaises: the watermark is saved although the toot raised
TootRaisesAndSaves(p) == TootRaisesTo(p, FileWith(Current(p).paper_id), "sleep")

\* mutant of TootRaises: the except branch goes on to the next item at once
TootRaisesSkipsPause(p) ==
    /\ pc[p] = "toot"
    /\ ~CreateStatusRaises(Current(p).paper)
    /\ idx' = [idx EXCEPT ![p] = @ + 1]
    /\ pc' = [pc EXCEPT ![p] =
                 IF idx[p] + 1 > Len(new_papers[p]) THEN "done" ELSE "toot"]
    /\ attempts' = [attempts EXCEPT ![p] = Append(@, Current(p).paper_id)]
    /\ failedIds' = failedIds \cup {Current(p).paper_id}
    /\ outcome' = [outcome EXCEPT ![p] = "failed"]
    /\ UNCHANGED <<file, fetched, last_posted_id, new_papers, published,
                   publishedBefore, run, runs, startFile, fetchStatus, retry,
                   flags, pauses, scheduling,
                   record, status_text>>

\* lines 192, 195-196: mastodon.toot raises; save_last_id is skipped
TootRaises(p) == TootRaisesTo(p, file, "sleep")

\* the write of save_last_id, with the file it leaves
SaveTo(p, f, failed) ==
    /\ pc[p] = "save"
    /\ pc' = [pc EXCEPT ![p] = "sleep"]
    /\ file' = f
    /\ flags' = [flags EXCEPT !.writeFault = @ \/ failed,
                              !.decreased = @ \/ LoadValue(f) < LoadValue(file)]
    /\ UNCHANGED <<locals, published, publishedBefore, attempts, run, runs, startFile,
                   fetchStatus, failedIds, retry, outcome, scheduling,
                   record, status_text>>
    /\ UNCHANGED pauses

\* mutant of SaveOk: the watermark the run loaded is written back
SaveStale(p) == SaveTo(p, FileWith(last_posted_id[p]), FALSE)

\* lines 69-71: the file now holds str(paper_id)
SaveOk(p) == SaveTo(p, FileWith(Current(p).paper_id), FALSE)

\* lines 69, 72-73: open raises, the file is as it was; the error is swallowed
SaveOpenFails(p) == SaveTo(p, file, TRUE)

\* lines 69-70, 72-73: open truncated the file, then the write raises
SaveWriteFails(p) == SaveTo(p, Truncated, TRUE)

\* lines 199-200 and the loop head at line 187
Sleep(p) ==
    /\ pc[p] = "sleep"
    /\ idx' = [idx EXCEPT ![p] = @ + 1]
    /\ pc' = [pc EXCEPT ![p] =
                 IF idx[p] + 1 > Len(new_papers[p]) THEN "done" ELSE "toot"]
    /\ pauses' = [pauses EXCEPT ![p] = @ + 1]
    /\ UNCHANGED <<file, fetched, last_posted_id, new_papers, hist, scheduling,
                   record, status_text>>

\* the process is killed from outside while it is in the publish loop
Kill(p) ==
    /\ pc[p] \in {"toot", "save", "sleep"}
    /\ pc' = [pc EXCEPT ![p] = "killed"]
    /\ flags' = [flags EXCEPT !.killed = TRUE]
    /\ UNCHANGED <<file, locals, published, publishedBefore, attempts, run, runs, startFile,
                   fetchStatus, failedIds, retry, outcome, scheduling,
                   record, status_text>>
    /\ UNCHANGED pauses

\* line 230 or the traceback: the process is gone, and its locals with it
Exit(p) ==
    /\ pc[p] \in {"done", "raised", "killed"}
    /\ pc' = [pc EXCEPT ![p] = "idle"]
    /\ fetched' = [fetched EXCEPT ![p] = {}]
    /\ last_posted_id' = [last_posted_id EXCEPT ![p] = 0]
    /\ new_papers' = [new_papers EXCEPT ![p] = <<>>]
    /\ idx' = [idx EXCEPT ![p] = 0]
    /\ attempts' = [attempts EXCEPT ![p] = <<>>]
    /\ published' = [published EXCEPT ![p] = <<>>]
    /\ publishedBefore' = publishedBefore \cup {published[p][k] : k \in 1..Len(published[p])}
    /\ run' = [run EXCEPT ![p] = 0]
    /\ startFile' = [startFile EXCEPT ![p] = NoFile]
    /\ fetchStatus' = [fetchStatus EXCEPT ![p] = "none"]
    /\ retry' = [retry EXCEPT ![p] = {}]
    /\ outcome' = [outcome EXCEPT ![p] = "none"]
    /\ pauses' = [pauses EXCEPT ![p] = 0]
    /\ UNCHANGED <<file, runs, failedIds, flags, scheduling,
                   record, status_text>>

Next ==
    \E p \in Procs :
        \/ FetchOk(p)
        \/ FetchRequestException(p)
        \/ FetchRaises(p)
        \/ FetchNotPapers(p)
        \/ FormatRaises(p)
        \/ TootOk(p)
        \/ TootRaises(p)
        \/ SaveOk(p)
        \/ SaveOpenFails(p)
        \/ SaveWriteFails(p)
        \/ Sleep(p)
        \/ Kill(p)
        \/ Exit(p)

Spec == Init /\ [][Next]_vars

\* two invocations that may overlap, neither of them killed
\* lines 113-154, 188: create_status is applied to the record
Format ==
    /\ ~status_text.done
    /\ status_text' = create_status(record)
    /\ UNCHANGED <<file, pc, locals, hist, pauses, record>>

NextFormat == Format

SpecFormat == InitFormat /\ [][NextFormat]_vars

NextOverlap ==
    \E p \in Procs :
        \/ FetchOk(p)
        \/ FetchRequestException(p)
        \/ FetchRaises(p)
        \/ FetchNotPapers(p)
        \/ FormatRaises(p)
        \/ TootOk(p)
        \/ TootRaises(p)
        \/ SaveOk(p)
        \/ SaveOpenFails(p)
        \/ SaveWriteFails(p)
        \/ Sleep(p)
        \/ Exit(p)

SpecOverlap == InitOverlap /\ [][NextOverlap]_vars


(* ------------------------------ properties ----------------------------- *)
\* the elements of a sequence
Range(s) == {s[k] : k \in 1..Len(s)}

\* the largest element of a non-empty set of integers
Max(S) == CHOOSE m \in S : \A n \in S : n <= m

\* the identifiers published with success in the run of invocation p
PublishedIn(p) == Range(published[p])

\* the identifiers published with success so far
PublishedIds == publishedBefore \cup UNION {PublishedIn(p) : p \in Procs}

\* the same identifier published with success by two invocations
SameIdByBoth ==
    \E p \in Procs :
        PublishedIn(p) \cap
            (publishedBefore \cup UNION {PublishedIn(q) : q \in Procs \ {p}}) # {}

\* C1: across non-overlapping runs no identifier is published with success
\* more than once, whatever the fetches return and whichever toots or
\* watermark writes fail.  Stated for the failures the claim names: as long as
\* every read of the watermark has worked and no run was killed, no identifier
\* has been published by two runs.
AtMostOncePublication ==
    (~flags.readFault /\ ~flags.killed) =>
        \A p \in Procs : PublishedIn(p) \cap publishedBefore = {}

\* C2: an identifier whose toot raised in an earlier run and that was never
\* published, and which the fetch of this run returned again, has been handed
\* to mastodon.toot by the time this run ends normally.
RetryOfFailedItems ==
    \A p \in Procs :
        pc[p] = "done" =>
            ((retry[p] \cap fetched[p]) \ PublishedIds) \subseteq Range(attempts[p])

\* C3: when a run ends, the persisted watermark is the largest identifier
\* published with success in that run, or what it was at the start of the
\* run when nothing was published.
FinalWatermarkOfRun ==
    \A p \in Procs :
        pc[p] \in {"done", "raised"} =>
            IF PublishedIn(p) = {}
            THEN file = startFile[p]
            ELSE LoadValue(file) = Max(PublishedIn(p))

\* C4: within one run the identifiers handed to mastodon.toot are strictly
\* ascending, in whatever order the fetch returned the papers.
DeliveryOrder ==
    \A p \in Procs :
        \A i, j \in 1..Len(attempts[p]) : i < j => attempts[p][i] < attempts[p][j]

\* C5: every identifier handed to mastodon.toot in a run was extracted from a
\* fetched paper and is strictly greater than the watermark the run loaded,
\* which is the persisted one of the start of the run, or 0 when reading failed.
WatermarkFilter ==
    \A p \in Procs :
        /\ \A k \in 1..Len(attempts[p]) :
              /\ attempts[p][k] \in fetched[p]
              /\ attempts[p][k] > last_posted_id[p]
        /\ pc[p] # "idle" => last_posted_id[p] \in {0, LoadValue(startFile[p])}

\* C5 witness: a finished run that loaded a watermark above 0, was handed a
\* paper at or below it and one above it, and made an attempt.
WatermarkFilterWitness ==
    \E p \in Procs :
        /\ pc[p] = "done"
        /\ last_posted_id[p] > 0
        /\ \E a \in fetched[p] : a > 0 /\ a <= last_posted_id[p]
        /\ attempts[p] # <<>>

\* C6: with one instance at a time the persisted watermark never decreases
\* and the identifiers published with success are strictly increasing in
\* time order, within a run and across runs.
MonotonicWatermark ==
    /\ ~flags.decreased
    /\ \A p \in Procs :
          /\ \A i, j \in 1..Len(published[p]) :
                i < j => published[p][i] < published[p][j]
          /\ \A earlier \in publishedBefore, id \in PublishedIn(p) : earlier < id

\* C7: when the process is killed in the publish loop, at most one identifier
\* published with success is greater than the persisted watermark.
CrashWindow ==
    \A p \in Procs :
        pc[p] = "killed" =>
            Cardinality({id \in PublishedIds : id > LoadValue(file)}) <= 1

\* C8: the step in which mastodon.toot raises leaves the watermark file as it
\* is and goes to the pause, not to save_last_id.
FailedPublishLeavesWatermark ==
    [][\A p \in Procs :
          (pc[p] = "toot" /\ Len(attempts'[p]) = Len(attempts[p]) + 1
                          /\ outcome'[p] = "failed")
          => (file' = file /\ pc'[p] = "sleep")]_vars

\* C8 witness: a toot has just raised while the file holds a watermark.
FailedPublishWitness ==
    \E p \in Procs :
        pc[p] = "sleep" /\ outcome[p] = "failed" /\ LoadValue(file) > 0

UnsafeOnlyWhenOverlapping ==
    (~flags.readFault /\ ~flags.writeFault /\ (SameIdByBoth \/ flags.decreased)) => flags.overlapped

\* C10 witness: no read or write has failed, the two invocations have
\* published the same identifier, and a save has lowered the watermark.
UnsafeOverlapWitness ==
    ~flags.readFault /\ ~flags.writeFault /\ SameIdByBoth /\ flags.decreased


\* a reference without an id parameter, or with one that int() rejects
Malformed(ref) == ~ref.hasId \/ ~ParseInt(ref.value).ok

\* C11: extract_id gives 0 for a reference with no id parameter or with a value
\* that is not an integer; a paper with such a reference, or with identifier
\* 0, is never a candidate and never handed to mastodon.toot, and the
\* watermark, stored or loaded, is never below 0.
UnparsableNeverAttempted ==
    /\ \A ref \in Refs : Malformed(ref) => extract_id(ref) = 0
    /\ LoadValue(file) >= 0
    /\ \A p \in Procs :
          /\ last_posted_id[p] >= 0
          /\ 0 \notin Range(attempts[p])
          /\ \A k \in 1..Len(new_papers[p]) :
                /\ ~Malformed(new_papers[p][k].paper.id)
                /\ new_papers[p][k].paper_id # 0

\* C11 witness: a run that loaded watermark 0 was handed a paper that extracts
\* to 0 next to a paper it attempted, and has ended.
UnparsableWitness ==
    \E p \in Procs :
        /\ pc[p] = "done"
        /\ last_posted_id[p] = 0
        /\ 0 \in fetched[p]
        /\ attempts[p] # <<>>


\* C12: a publish attempt begins only when every earlier attempt of the run,
\* successful or not, has been followed by its pause: at the head of the loop
\* and at the end of the run there are as many pauses as attempts, and in
\* between at most the pause of the latest attempt is outstanding.
Pacing ==
    \A p \in Procs :
        /\ pc[p] \in {"toot", "done"} => pauses[p] = Len(attempts[p])
        /\ pc[p] \in {"save", "sleep"} => pauses[p] + 1 = Len(attempts[p])
        /\ pauses[p] <= Len(attempts[p])
        /\ Len(attempts[p]) <= pauses[p] + 1

\* C12 witness: the second attempt of a run is about to begin, after a first
\* attempt that raised and the pause that followed it.
PacingWitness ==
    \E p \in Procs :
        /\ pc[p] = "toot"
        /\ Len(attempts[p]) = 1
        /\ outcome[p] = "failed"
        /\ pauses[p] = 1


\* an optional field that is in the record with a value other than null
Present(field) == field \notin {"absent", "null"}

\* the records C13 speaks of: each optional field absent, null or a value of
\* its type, created possibly a string that is no timestamp
Tolerated(paper) ==
    /\ paper.paperType # "empty" /\ paper.web # "empty"
    /\ paper.created \notin {"empty", "number"}

\* the lines C13 promises: title, the present fields in fixed order, tag line
PromisedLines(paper) ==
    <<"title">>
    \o (IF Present(paper.paperType) THEN <<"type">> ELSE <<>>)
    \o (IF paper.created = "iso" THEN <<"date">> ELSE <<>>)
    \o (IF Present(paper.web) THEN <<"web">> ELSE <<>>)
    \o (IF paper.mainFile = "url" THEN <<"pdf">> ELSE <<>>)
    \o <<"tags">>

\* C13: for every record whose optional fields are absent, null or present,
\* create_status does not raise and returns the title line, the lines of the
\* present fields in the order type, date, web link, file link, and the tag
\* line; a created string that is no timestamp only drops the date line.
FormatterTolerance ==
    (status_text.done /\ Tolerated(record)) =>
        /\ ~status_text.raises
        /\ status_text.lines = PromisedLines(record)


\* the identifiers of the candidates of p's run, in loop order
CandidateIds(p) == [k \in 1..Len(new_papers[p]) |-> new_papers[p][k].paper_id]

\* C14: whichever publish attempts and watermark writes fail, a run that has
\* entered the publish loop is not ended by an exception, makes its attempts
\* one per candidate in loop order, and has made exactly one attempt for each
\* candidate when it ends.
RunCompletion ==
    \A p \in Procs :
        /\ pc[p] = "raised" => idx[p] = 0
        /\ pc[p] \in {"toot", "save", "sleep", "done"} =>
              /\ Len(attempts[p]) <= Len(new_papers[p])
              /\ attempts[p] = SubSeq(CandidateIds(p), 1, Len(attempts[p]))
        /\ pc[p] = "done" => attempts[p] = CandidateIds(p)


\* the state file is there and its text is an integer
HoldsInteger(f) == f.exists /\ ParseInt(f.content).ok

\* texts that int() rejects: empty, a letter, digits with a letter, a bare sign
NotIntegers == {<<>>, <<"x">>, <<"1", "x">>, <<"-">>}

\* the run of p got 0 from load_last_id because the file was absent, could not
\* be read, or held no integer
ReadFailed(p) ==
    \/ ~HoldsInteger(startFile[p])
    \/ last_posted_id[p] # LoadValue(startFile[p])

\* C15: load_last_id gives the stored integer when the file holds one, and 0
\* when the file is absent, unreadable or holds text that is no integer; a run
\* after such a read failure has watermark 0 and takes every fetched
\* identifier above 0 as a candidate.
LoadFallback ==
    /\ LoadValue(NoFile) = 0
    /\ \A n \in 0..MaxId : LoadValue(FileWith(n)) = n
    /\ \A t \in NotIntegers : LoadValue([exists |-> TRUE, content |-> t]) = 0
    /\ \A p \in Procs :
          fetchStatus[p] \in {"ok", "reqexc", "notpapers"} =>
              /\ last_posted_id[p] \in {0, LoadValue(startFile[p])}
              /\ ReadFailed(p) =>
                    /\ last_posted_id[p] = 0
                    /\ fetchStatus[p] # "notpapers" =>
                          Range(CandidateIds(p)) = {i \in fetched[p] : i > 0}

\* C15 witness: the file held watermark 2 and could not be read; the run took
\* 0 and has the fetched identifier 1, below the stored watermark, as candidate
LoadFallbackWitness ==
    \E p \in Procs :
        /\ pc[p] = "toot" /\ fetchStatus[p] = "ok"
        /\ startFile[p] = FileWith(2) /\ last_posted_id[p] = 0
        /\ 1 \in Range(CandidateIds(p))


\* two candidates of p's run extract to the same identifier
DuplicateCandidates(p) ==
    \E i, j \in 1..Len(new_papers[p]) :
        i < j /\ new_papers[p][i].paper_id = new_papers[p][j].paper_id

\* C16: a run whose fetched list holds two items with the same identifier
\* above the watermark is not ended by an exception of the sort, and what it
\* publishes is strictly ascending, so that identifier is published at most
\* once in the run.
DuplicatesInOneFetch ==
    \A p \in Procs :
        DuplicateCandidates(p) =>
            /\ ~(pc[p] = "raised" /\ idx[p] = 0)
            /\ \A i, j \in 1..Len(published[p]) :
                  i < j => published[p][i] < published[p][j]


=============================================================================
